---- MODULE Spec2Model ----
(***************************************************************************)
(* Model of the MG-GEN provider shim:                                      *)
(*   - DeepSeekOCRRefiner (src/src/modules/ocr/deepseek_refine.py)         *)
(*   - OpenRouterClient   (src/src/ai_client/chat.py)                      *)
(*   - ModelsWrapper      (src/src/gemini/chat.py)                         *)
(*   - infer_text         (src/src/modules/ocr/deepseek_local.py)          *)
(* Strings are sequences of one-character strings, Python None and JSON    *)
(* values are tagged records.                                              *)
(***************************************************************************)
EXTENDS Integers, Sequences, FiniteSets, TLC

VARIABLES
    env_ocr_url,     \* os.environ["DEEPSEEK_OCR_URL"] (PyNone when unset)
    endpoint,        \* DeepSeekOCRRefiner.endpoint
    enabled,         \* DeepSeekOCRRefiner.enabled
    rpc,             \* position of the refiner: "new", "idle", "loop", "returned",
                     \* "raised" (an exception left refine)
    ocr_text_list,   \* refine's argument: the caller's list of regions
    image,           \* refine's argument: the source image
    refined,         \* refine's local list `refined`
    idx,             \* number of items of ocr_text_list the loop has consumed
    returned,        \* the list refine returned
    posts,           \* the requests.post calls issued by the current refine call
    inferred,        \* per consumed item: what the inference call gave
    lastResp,        \* the HTTP outcome of the most recent requests.post
    lastText,        \* what _post_image returned for it
    os_environ,      \* OPENROUTER_API_KEY, OPENROUTER_BASE_URL, OPENROUTER_MODEL
    cpc,             \* position of the client: "new", "failed", "ready", "done"
                     \* (an edit ended), "generated", "generated_models" (a
                     \* generate_content call ended)
    model_name,      \* OpenRouterClient.model_name
    client_key,      \* api_key held by OpenRouterClient.client
    client_url,      \* base_url held by OpenRouterClient.client
    wire,            \* the provider calls made by the current edit, in order
    result,          \* what edit_image_with_mask returned or raised
    edit_image,      \* edit_image_with_mask's argument `image`
    mask_arg,        \* the caller's mask as passed to edit_image_with_mask
    mask,            \* the caller's mask object after the call
    machine,         \* the device the process selects: "cpu" or "cuda"
    _MODEL,          \* deepseek_local._MODEL: 0 for None, n for the n-th loaded model
    _TOKENIZER,      \* deepseek_local._TOKENIZER: 0 for None, n for the n-th loaded
    _DEVICE,         \* deepseek_local._DEVICE
    _DTYPE,          \* deepseek_local._DTYPE
    torch,           \* torch.cuda.amp.autocast, torch.Tensor.cuda, torch.nn.Module.cuda
    frames,          \* per thread: the position and the locals of its infer_text call
    calls,           \* per thread: the number of infer_text calls it has made
    loads,           \* how many times the tokenizer and the model were loaded
    used,            \* the model instances model.infer was called on
    finished         \* the infer_text calls that have ended: who, and "returned",
                     \* "load_raised", "save_raised" or "infer_raised"

rvars == <<env_ocr_url, endpoint, enabled, rpc, ocr_text_list, image, refined,
           idx, returned, posts, inferred, lastResp, lastText>>

evars == <<os_environ, cpc, model_name, client_key, client_url, wire, result,
           edit_image, mask_arg, mask>>

lvars == <<machine, _MODEL, _TOKENIZER, _DEVICE, _DTYPE, torch, frames, calls,
           loads, used, finished>>

vars == <<rvars, evars, lvars>>

----------------------------------------------------------------------------
(* Bounds *)

MaxRegions == 2
MaxMaskWidth == 2
MaxCallers == 2
MaxCalls == 2

----------------------------------------------------------------------------
(* deepseek_local: values *)

\* the threads that call infer_text
Callers == 1..MaxCallers

\* the devices _load_model_and_tokenizer can select (line 40) and whether
\* torch.cuda.is_bf16_supported() holds (line 42)
Machines ==
    {[device |-> "cpu", bf16 |-> FALSE],
     [device |-> "cuda", bf16 |-> TRUE],
     [device |-> "cuda", bf16 |-> FALSE]}

\* the three process-wide attributes infer_text replaces, in the order of
\* lines 117-119, 142-144 and 167-169
Hooks == <<"autocast", "tensor_cuda", "module_cuda">>

\* a hook is torch's own function or the closure a call of thread t defined
Original == [f |-> "original"]
Patched(t) == [f |-> "patched", by |-> t]
Unbound == [f |-> "unbound"]
OriginalHooks == [autocast |-> Original, tensor_cuda |-> Original, module_cuda |-> Original]
NoOriginals == [autocast |-> Unbound, tensor_cuda |-> Unbound, module_cuda |-> Unbound]

\* a thread outside infer_text
IdleFrame ==
    [pc |-> "idle", i |-> 0, model |-> 0, tokenizer |-> 0, device |-> "none",
     dtype |-> "none", originals |-> NoOriginals]

----------------------------------------------------------------------------
(* Python values *)

PyNone == [t |-> "null"]
PyStr(s) == [t |-> "str", v |-> s]
PyNum(s) == [t |-> "num", v |-> s]
PyList(items) == [t |-> "list", items |-> items]
PyDict(m) == [t |-> "dict", m |-> m]

\* Mutant of Truthy: `x is not None`
TruthyNotNone(x) == x.t # "null"

\* bool(x) for the values above
Truthy(x) ==
    CASE x.t = "null" -> FALSE
      [] x.t = "str" -> x.v # <<>>
      [] x.t = "num" -> x.v # <<"0">>
      [] x.t = "list" -> x.items # <<>>
      [] x.t = "dict" -> DOMAIN x.m # {}
      [] x.t = "obj" -> TRUE

\* str(x) for a JSON scalar
ToStr(x) ==
    CASE x.t = "str" -> x.v
      [] x.t = "num" -> x.v
      [] x.t = "null" -> <<"N", "o", "n", "e">>

IsSpace(c) == c \in {" ", "\n", "\t"}

RECURSIVE LStrip(_)
LStrip(s) ==
    IF s = <<>> THEN s
    ELSE IF IsSpace(Head(s)) THEN LStrip(Tail(s)) ELSE s

RECURSIVE RStrip(_)
RStrip(s) ==
    IF s = <<>> THEN s
    ELSE IF IsSpace(s[Len(s)]) THEN RStrip(SubSeq(s, 1, Len(s) - 1)) ELSE s

\* Mutant of Strip: str.lstrip()
StripLeftOnly(s) == LStrip(s)

\* str.strip()
Strip(s) == RStrip(LStrip(s))

----------------------------------------------------------------------------
(* OpenRouterClient: strings and environment *)

UpperCase == <<"A", "B", "C", "D", "E", "F", "G", "H", "I", "J", "K", "L", "M", "N", "O", "P", "Q", "R", "S", "T", "U", "V", "W", "X", "Y", "Z">>
LowerCase == <<"a", "b", "c", "d", "e", "f", "g", "h", "i", "j", "k", "l", "m", "n", "o", "p", "q", "r", "s", "t", "u", "v", "w", "x", "y", "z">>

LowerChar(c) ==
    IF \E i \in DOMAIN UpperCase : UpperCase[i] = c
    THEN LowerCase[CHOOSE i \in DOMAIN UpperCase : UpperCase[i] = c]
    ELSE c

\* str.lower()
Lower(str) == [i \in DOMAIN str |-> LowerChar(str[i])]

\* `needle in hay`
Contains(hay, needle) ==
    \E i \in 0..(Len(hay) - Len(needle)) :
        SubSeq(hay, i + 1, i + Len(needle)) = needle

\* str.startswith(prefix)
StartsWith(str, prefix) ==
    Len(str) >= Len(prefix) /\ SubSeq(str, 1, Len(prefix)) = prefix

\* the defaults of __init__ (lines 16-17)
DefaultBaseUrl == <<"h", "t", "t", "p", "s", ":", "/", "/", "o", "p", "e", "n", "r", "o", "u", "t", "e", "r", ".", "a", "i", "/", "a", "p", "i", "/", "v", "1">>
DefaultModel == <<"o", "p", "e", "n", "r", "o", "u", "t", "e", "r", "/", "p", "o", "l", "a", "r", "i", "s", "-", "a", "l", "p", "h", "a">>

\* model identifiers
GeminiFlashImage == <<"g", "o", "o", "g", "l", "e", "/", "g", "e", "m", "i", "n", "i", "-", "2", ".", "5", "-", "f", "l", "a", "s", "h", "-", "i", "m", "a", "g", "e">>
GeminiUpper == <<"G", "E", "M", "I", "N", "I", "-", "P", "R", "O">>
GeminiMixed == <<"x", "/", "G", "e", "M", "i", "N", "i">>
GptImage == <<"g", "p", "t", "-", "i", "m", "a", "g", "e", "-", "1">>
NearGemini == <<"g", "e", "m", "i", "n", "-", "i">>

\* the model_name argument of OpenRouterClient(...): None or an identifier
ModelArgs ==
    {PyNone} \cup {PyStr(m) : m \in {GeminiFlashImage, GeminiUpper, GeminiMixed,
                                     GptImage, NearGemini}}

\* The process environment: the three variables OpenRouterClient reads
KeyOne == <<"k", "1">>
KeyTwo == <<"k", "2">>
UrlTwo == <<"h", "t", "t", "p", ":", "/", "/", "u", "2">>
EnvUnset == [key |-> PyNone, url |-> PyNone, model |-> PyNone]
Environments == {
    EnvUnset,
    [key |-> PyStr(<<>>), url |-> PyNone, model |-> PyNone],
    [key |-> PyStr(KeyOne), url |-> PyNone, model |-> PyNone],
    [key |-> PyStr(KeyTwo), url |-> PyStr(UrlTwo), model |-> PyStr(GeminiFlashImage)] }

\* os.getenv(name, default)
GetEnv(value, default) == IF value = PyNone THEN default ELSE value

NoMask == [mode |-> "L", w |-> 0, h |-> 0, px |-> <<>>]
NoImage == [w |-> 0, h |-> 0]
NoResult == [k |-> "none"]

----------------------------------------------------------------------------
(* DeepSeekOCRRefiner: inputs *)

\* Values of the DEEPSEEK_OCR_URL environment variable
Url == <<"h", "t", "t", "p", ":", "/", "/", "o", "c", "r", "/", "i", "n", "f", "e", "r">>
EnvUrls == {PyNone, PyStr(<<>>), PyStr(Url)}

\* The literal prompt of refine: "<image>\\nFree OCR."
Prompt == <<"<", "i", "m", "a", "g", "e", ">", "\\", "n", "F", "r", "e", "e", " ", "O", "C", "R", ".">>

\* Response bodies: the raw text (resp.text) and what resp.json() makes of it
\* (t = "invalid": resp.json() raises a decoding error).
JsonInvalid == [t |-> "invalid"]
RawPlain == <<" ", "h", "i", "\n">>
RawText == <<"{", "\"", "t", "e", "x", "t", "\"", ":", "\"", " ", "a", " ", "\"", "}">>
RawBlank == <<"{", "\"", "t", "e", "x", "t", "\"", ":", "\"", " ", "\"", "}">>
RawOutputs == <<"{", "\"", "o", "u", "t", "p", "u", "t", "s", "\"", ":", "[", "{", "\"", "t", "e", "x", "t", "\"", ":", "\"", "b", " ", "\"", "}", "]", "}">>
RawNullText == <<"{", "\"", "t", "e", "x", "t", "\"", ":", "n", "u", "l", "l", ",", "\"", "o", "u", "t", "p", "u", "t", "s", "\"", ":", "[", "{", "\"", "t", "e", "x", "t", "\"", ":", "7", "}", "]", "}">>
RawOutputsEmpty == <<"{", "\"", "o", "u", "t", "p", "u", "t", "s", "\"", ":", "[", "]", "}">>
RawOutputsStr == <<"{", "\"", "o", "u", "t", "p", "u", "t", "s", "\"", ":", "[", "\"", "b", "\"", "]", "}">>
RawOutputsNoText == <<"{", "\"", "o", "u", "t", "p", "u", "t", "s", "\"", ":", "[", "{", "}", "]", "}">>
RawOutputsNull == <<"{", "\"", "o", "u", "t", "p", "u", "t", "s", "\"", ":", "[", "{", "\"", "t", "e", "x", "t", "\"", ":", "n", "u", "l", "l", "}", "]", "}">>
RawObj == <<"{", "}">>
RawList == <<" ", "[", "]", " ">>
RawString == <<"\"", "a", "\"">>

Bodies == {
    [raw |-> <<>>, json |-> JsonInvalid],
    [raw |-> RawPlain, json |-> JsonInvalid],
    [raw |-> RawText, json |-> PyDict([text |-> PyStr(<<" ", "a", " ">>)])],
    [raw |-> RawBlank, json |-> PyDict([text |-> PyStr(<<" ">>)])],
    [raw |-> RawOutputs,
     json |-> PyDict([outputs |-> PyList(<<PyDict([text |-> PyStr(<<"b", " ">>)])>>)])],
    [raw |-> RawNullText,
     json |-> PyDict([text |-> PyNone,
                      outputs |-> PyList(<<PyDict([text |-> PyNum(<<"7">>)])>>)])],
    [raw |-> RawOutputsEmpty, json |-> PyDict([outputs |-> PyList(<<>>)])],
    [raw |-> RawOutputsStr, json |-> PyDict([outputs |-> PyList(<<PyStr(<<"b">>)>>)])],
    [raw |-> RawOutputsNoText, json |-> PyDict([outputs |-> PyList(<<PyDict(<<>>)>>)])],
    [raw |-> RawOutputsNull,
     json |-> PyDict([outputs |-> PyList(<<PyDict([text |-> PyNone])>>)])],
    [raw |-> RawObj, json |-> PyDict(<<>>)],
    [raw |-> RawList, json |-> PyList(<<>>)],
    [raw |-> RawString, json |-> PyStr(<<"a">>)] }

Statuses == {200, 204, 500}

\* What requests.post(..., timeout=30) does: raises, or returns a response
Transport(exc) == [k |-> "raise", exc |-> exc]
Response(status, body) == [k |-> "resp", status |-> status, body |-> body]
HttpOutcomes ==
    {Transport(e) : e \in {"Timeout", "ConnectionError"}}
    \cup {Response(200, b) : b \in Bodies}
    \cup {Response(s, [raw |-> RawText, json |-> PyDict([text |-> PyStr(<<" ", "a", " ">>)])]) :
            s \in Statuses}
NoResp == [k |-> "none"]

\* What can happen around one inference call: _encode_image_b64 raises, the
\* call itself raises (an overridden _post_image), or requests.post is reached
CallInputs ==
    {[enc |-> "raise", stub |-> FALSE, out |-> NoResp],
     [enc |-> "ok", stub |-> TRUE, out |-> NoResp]}
    \cup {[enc |-> "ok", stub |-> FALSE, out |-> o] : o \in HttpOutcomes}

\* Regions (dicts of the OCR list).  "score" stands for every other key.
Vtx(x, y) == [x |-> x, y |-> y]
Items == {
    [vertices |-> <<Vtx(1, 1), Vtx(4, 1), Vtx(4, 3), Vtx(1, 3)>>, text |-> <<"a">>, score |-> 9],
    [vertices |-> <<Vtx(0, 2), Vtx(2, 0), Vtx(3, 3)>>, text |-> <<>>, score |-> 5],
    [vertices |-> <<>>, text |-> <<"b">>, score |-> 7],
    [text |-> <<"a">>, score |-> 3],
    [vertices |-> <<Vtx(1, 1), [y |-> 2], Vtx(2, 2)>>, text |-> <<"b">>, score |-> 1] }

\* Source images: one that crops, one whose pixel data cannot be loaded
Images == {"ok", "truncated"}

RECURSIVE SeqsUpTo(_, _)
SeqsUpTo(S, n) ==
    IF n = 0 THEN {<<>>}
    ELSE LET shorter == SeqsUpTo(S, n - 1)
         IN shorter \cup {Append(q, x) : q \in {r \in shorter : Len(r) = n - 1}, x \in S}

RegionLists == SeqsUpTo(Items, MaxRegions)

----------------------------------------------------------------------------
(* DeepSeekOCRRefiner: code *)

\* dict.get(key, default)
DictGet(d, key, default) == IF key \in DOMAIN d THEN d[key] ELSE default

\* Mutant of PostException: a body that is not JSON is taken as text
PostExceptionRawText(out) ==
    IF out.k = "resp" THEN PyStr(Strip(out.body.raw)) ELSE PyNone

\* _post_image, lines 44-45: `except Exception: return None`
PostException(out) == PyNone

\* _post_image, lines 31-43: the value returned once requests.post has
\* returned or raised
ParseResponse(out) ==
    IF out.k = "raise" THEN PostException(out)
    ELSE IF out.status # 200 THEN PyNone
    ELSE LET data == out.body.json
             fallback == PyStr(Strip(out.body.raw))
         IN IF data.t = "invalid" THEN PostException(out)
            ELSE IF data.t # "dict" THEN fallback
            ELSE IF "text" \in DOMAIN data.m /\ data.m["text"].t = "str"
                 THEN PyStr(Strip(data.m["text"].v))
            ELSE IF /\ "outputs" \in DOMAIN data.m
                    /\ data.m["outputs"].t = "list"
                    /\ data.m["outputs"].items # <<>>
                 THEN LET first == data.m["outputs"].items[1]
                      IN IF first.t = "dict" /\ "text" \in DOMAIN first.m
                         THEN PyStr(Strip(ToStr(first.m["text"])))
                         ELSE fallback
            ELSE fallback

\* _post_image, lines 27-31: whether requests.post is reached
PostIssued(ep, enc) == Truthy(ep) /\ enc = "ok"

\* _post_image: enc is the outcome of _encode_image_b64, out that of requests.post
PostImage(ep, enc, out) ==
    IF ~Truthy(ep) THEN PyNone
    ELSE IF enc # "ok" THEN PyNone
    ELSE ParseResponse(out)

\* refine, line 57: `not vertices`
NoVertices(item) ==
    LET vertices == DictGet(item, "vertices", <<>>)
    IN vertices = <<>>

\* refine, lines 60-63: v["x"], v["y"] raise KeyError on a vertex without them
BBoxRaises(item) ==
    \E i \in DOMAIN item.vertices :
        ~("x" \in DOMAIN item.vertices[i]) \/ ~("y" \in DOMAIN item.vertices[i])

Min(S) == CHOOSE m \in S : \A n \in S : m <= n
Max(S) == CHOOSE m \in S : \A n \in S : m >= n

BBox(item) ==
    LET xs == {item.vertices[i].x : i \in DOMAIN item.vertices}
        ys == {item.vertices[i].y : i \in DOMAIN item.vertices}
    IN <<Min(xs), Min(ys), Max(xs), Max(ys)>>

\* refine, line 64
CropRaises(img) == img # "ok"

\* Mutant of ChooseText: the original text only when the result is None
ChooseTextNotNone(res, item) ==
    IF res.t = "str" THEN res.v ELSE DictGet(item, "text", <<>>)

\* refine, line 68: `self._post_image(crop, prompt) or item.get("text", "")`
ChooseText(res, item) ==
    IF Truthy(res) THEN res.v ELSE DictGet(item, "text", <<>>)

\* Mutant of NewItem: a fresh dict holding the text and the bounding polygon
NewItemFresh(item, text) == [text |-> text, vertices |-> item.vertices]

\* refine, lines 71-72: dict(item) with "text" set
NewItem(item, text) ==
    [k \in DOMAIN item \cup {"text"} |-> IF k = "text" THEN text ELSE item[k]]

\* Mutant of OnItemException: no except clause, the exception propagates
OnItemExceptionPropagate(acc, item) == [refined |-> acc, abort |-> TRUE]

\* refine, lines 74-75: the except clause.  abort: the exception leaves refine.
OnItemException(acc, item) == [refined |-> Append(acc, item), abort |-> FALSE]

\* One iteration of the loop of refine (lines 54-75).  stub = TRUE: the
\* inference call itself raises (an overridden _post_image).
\* Yields the new `refined`, how the item went, what inference gave, whether
\* requests.post was reached and whether an exception leaves refine.
RefineItem(acc, item, img, ep, enc, out, stub) ==
    IF NoVertices(item)
    THEN [refined |-> Append(acc, item), how |-> "skipped", res |-> PyNone,
          post |-> FALSE, abort |-> FALSE]
    ELSE IF BBoxRaises(item)
    THEN LET h == OnItemException(acc, item)
         IN [refined |-> h.refined, how |-> "bbox_raised", res |-> PyNone,
             post |-> FALSE, abort |-> h.abort]
    ELSE IF CropRaises(img)
    THEN LET h == OnItemException(acc, item)
         IN [refined |-> h.refined, how |-> "crop_raised", res |-> PyNone,
             post |-> FALSE, abort |-> h.abort]
    ELSE IF stub
    THEN LET h == OnItemException(acc, item)
         IN [refined |-> h.refined, how |-> "infer_raised", res |-> PyNone,
             post |-> FALSE, abort |-> h.abort]
    ELSE LET res == PostImage(ep, enc, out)
         IN [refined |-> Append(acc, NewItem(item, ChooseText(res, item))),
             how |-> "inferred", res |-> res, post |-> PostIssued(ep, enc),
             abort |-> FALSE]

\* __init__, line 19: bool(self.endpoint)
Enabled(ep) == Truthy(ep)

----------------------------------------------------------------------------
(* DeepSeekOCRRefiner: actions *)

\* The environment variable is set, changed or unset
SetOcrEnv ==
    /\ rpc \in {"new", "idle"}
    /\ \E u \in EnvUrls : env_ocr_url' = u
    /\ env_ocr_url' # env_ocr_url
    /\ UNCHANGED <<endpoint, enabled, rpc, ocr_text_list, image, refined, idx,
                   returned, posts, inferred, lastResp, lastText>>
    /\ UNCHANGED evars
    /\ UNCHANGED lvars

\* DeepSeekOCRRefiner.__init__
RefinerInit ==
    /\ rpc = "new"
    /\ endpoint' = env_ocr_url
    /\ enabled' = Enabled(env_ocr_url)
    /\ rpc' = "idle"
    /\ UNCHANGED <<env_ocr_url, ocr_text_list, image, refined, idx, returned,
                   posts, inferred, lastResp, lastText>>
    /\ UNCHANGED evars
    /\ UNCHANGED lvars

\* refine is called and is not configured (lines 49-50)
RefineDisabled ==
    /\ rpc = "idle"
    /\ ~enabled
    /\ \E l \in RegionLists, img \in Images :
        /\ ocr_text_list' = l
        /\ image' = img
        /\ returned' = l
    /\ refined' = <<>>
    /\ idx' = 0
    /\ posts' = <<>>
    /\ inferred' = <<>>
    /\ lastResp' = NoResp
    /\ lastText' = PyNone
    /\ rpc' = "returned"
    /\ UNCHANGED <<env_ocr_url, endpoint, enabled>>
    /\ UNCHANGED evars
    /\ UNCHANGED lvars

\* refine is called and is configured (line 52)
RefineBegin ==
    /\ rpc = "idle"
    /\ enabled
    /\ \E l \in RegionLists, img \in Images :
        /\ ocr_text_list' = l
        /\ image' = img
    /\ refined' = <<>>
    /\ idx' = 0
    /\ returned' = <<>>
    /\ posts' = <<>>
    /\ inferred' = <<>>
    /\ lastResp' = NoResp
    /\ lastText' = PyNone
    /\ rpc' = "loop"
    /\ UNCHANGED <<env_ocr_url, endpoint, enabled>>
    /\ UNCHANGED evars
    /\ UNCHANGED lvars

\* one iteration of `for item in ocr_text_list` (lines 53-75)
RefineStep ==
    /\ rpc = "loop"
    /\ idx < Len(ocr_text_list)
    /\ \E c \in CallInputs :
        LET item == ocr_text_list[idx + 1]
            out == c.out
            r == RefineItem(refined, item, image, endpoint, c.enc, out, c.stub)
        IN /\ refined' = r.refined
           /\ inferred' = Append(inferred, [how |-> r.how, res |-> r.res])
           /\ posts' = IF r.post
                       THEN Append(posts, [url |-> endpoint.v, box |-> BBox(item),
                                           prompt |-> Prompt, at |-> idx + 1])
                       ELSE posts
           /\ lastResp' = IF r.post THEN out ELSE NoResp
           /\ lastText' = r.res
           /\ rpc' = IF r.abort THEN "raised" ELSE "loop"
    /\ idx' = idx + 1
    /\ UNCHANGED <<env_ocr_url, endpoint, enabled, ocr_text_list, image, returned>>
    /\ UNCHANGED evars
    /\ UNCHANGED lvars

\* `return refined` (line 76)
RefineReturn ==
    /\ rpc = "loop"
    /\ idx = Len(ocr_text_list)
    /\ returned' = refined
    /\ rpc' = "returned"
    /\ UNCHANGED <<env_ocr_url, endpoint, enabled, ocr_text_list, image, refined,
                   idx, posts, inferred, lastResp, lastText>>
    /\ UNCHANGED evars
    /\ UNCHANGED lvars

\* the caller drops the result and is ready for another call
RefineAgain ==
    /\ rpc = "returned"
    /\ rpc' = "idle"
    /\ ocr_text_list' = <<>>
    /\ image' = "ok"
    /\ refined' = <<>>
    /\ idx' = 0
    /\ returned' = <<>>
    /\ posts' = <<>>
    /\ inferred' = <<>>
    /\ lastResp' = NoResp
    /\ lastText' = PyNone
    /\ UNCHANGED <<env_ocr_url, endpoint, enabled>>
    /\ UNCHANGED evars
    /\ UNCHANGED lvars

RefinerInitState ==
    /\ env_ocr_url \in EnvUrls
    /\ endpoint = PyNone
    /\ enabled = FALSE
    /\ rpc = "new"
    /\ ocr_text_list = <<>>
    /\ image = "ok"
    /\ refined = <<>>
    /\ idx = 0
    /\ returned = <<>>
    /\ posts = <<>>
    /\ inferred = <<>>
    /\ lastResp = NoResp
    /\ lastText = PyNone
    \* no OpenRouterClient is constructed
    /\ os_environ = EnvUnset
    /\ cpc = "new"
    /\ model_name = <<>>
    /\ client_key = <<>>
    /\ client_url = <<>>
    /\ wire = <<>>
    /\ result = NoResult
    /\ edit_image = NoImage
    /\ mask_arg = NoMask
    /\ mask = NoMask
    \* infer_text is not called
    /\ machine = [device |-> "cpu", bf16 |-> FALSE]
    /\ _MODEL = 0
    /\ _TOKENIZER = 0
    /\ _DEVICE = "none"
    /\ _DTYPE = "none"
    /\ torch = OriginalHooks
    /\ frames = [t \in Callers |-> IdleFrame]
    /\ calls = [t \in Callers |-> 0]
    /\ loads = [tokenizer |-> 0, model |-> 0]
    /\ used = {}
    /\ finished = {}

RefinerNext ==
    \/ SetOcrEnv
    \/ RefinerInit
    \/ RefineDisabled
    \/ RefineBegin
    \/ RefineStep
    \/ RefineReturn
    \/ RefineAgain

SpecRefine == RefinerInitState /\ [][RefinerNext]_vars

----------------------------------------------------------------------------
(* Properties of DeepSeekOCRRefiner, checked under SpecRefine *)

RaisedHows == {"bbox_raised", "crop_raised", "infer_raised"}

\* a and b agree on every key other than "text"
SameButText(a, b) ==
    /\ DOMAIN a \ {"text"} = DOMAIN b \ {"text"}
    /\ \A k \in DOMAIN a \ {"text"} : a[k] = b[k]

\* the configured refine is running or has returned
InPass == rpc \in {"loop", "returned"} /\ enabled

\* C1: with the endpoint configured, a region whose processing raises (in
\* the bounding box, the crop or the inference call) does not abort the
\* pass: no exception leaves refine, the output holds the original region at
\* its place, and the loop goes on to consume every region of the input.
C1_FailureIsLocal ==
    /\ rpc # "raised"
    /\ InPass =>
        /\ Len(refined) = idx
        /\ Len(inferred) = idx
        /\ \A i \in 1..idx :
            inferred[i].how \in RaisedHows => refined[i] = ocr_text_list[i]
    /\ (rpc = "returned" /\ enabled) =>
        /\ idx = Len(ocr_text_list)
        /\ returned = refined

\* C1 witness: a region raised and a later region was refined to a new text
C1_Witness ==
    /\ rpc = "returned"
    /\ enabled
    /\ \E i, j \in 1..Len(returned) :
        /\ i < j
        /\ inferred[i].how = "infer_raised"
        /\ returned[i] = ocr_text_list[i]
        /\ inferred[j].how = "inferred"
        /\ returned[j].text # ocr_text_list[j].text

\* C2: the output of refine has the length of the input and output[i]
\* agrees with input[i] on every field other than text, whatever the
\* per-region outcomes were.
C2_OneToOne ==
    /\ rpc = "loop" =>
        /\ Len(refined) <= Len(ocr_text_list)
        /\ \A i \in 1..Len(refined) : SameButText(ocr_text_list[i], refined[i])
    /\ rpc = "returned" =>
        /\ Len(returned) = Len(ocr_text_list)
        /\ \A i \in 1..Len(returned) : SameButText(ocr_text_list[i], returned[i])

\* C2 witness: two regions came back, the first with a new text, the second
\* after a failure
C2_Witness ==
    /\ rpc = "returned"
    /\ enabled
    /\ Len(returned) = 2
    /\ inferred[1].how = "inferred"
    /\ returned[1].text # ocr_text_list[1].text
    /\ returned[1].vertices = ocr_text_list[1].vertices
    /\ inferred[2].how \in RaisedHows

\* C3: for a region with a non-empty polygon the output text is the
\* inference result when that is a non-empty string and the original text
\* when inference gave an empty or absent result (or did not complete);
\* nothing else of the region differs.
C3_TextRule ==
    InPass =>
        \A i \in 1..Len(refined) :
            ~NoVertices(ocr_text_list[i]) =>
                LET r == inferred[i]
                    got == r.how = "inferred" /\ r.res.t = "str" /\ r.res.v # <<>>
                IN /\ got => refined[i].text = r.res.v
                   /\ ~got => refined[i].text = ocr_text_list[i].text
                   /\ SameButText(ocr_text_list[i], refined[i])

\* C3 witness: one region took a non-empty result, another kept its text
\* because the result was the empty string
C3_Witness ==
    /\ rpc = "returned"
    /\ enabled
    /\ \E i, j \in 1..Len(returned) :
        /\ inferred[i].how = "inferred"
        /\ inferred[i].res = PyStr(<<"7">>)
        /\ returned[i].text = <<"7">>
        /\ ocr_text_list[i].text # <<"7">>
        /\ inferred[j].how = "inferred"
        /\ inferred[j].res = PyStr(<<>>)
        /\ returned[j].text = <<"a">>

\* C4: a refiner constructed with no endpoint set (unset or empty) returns
\* its input list and issues no request.
C4_UnconfiguredNoOp ==
    (rpc # "new" /\ endpoint \in {PyNone, PyStr(<<>>)}) =>
        /\ posts = <<>>
        /\ rpc \in {"idle", "returned"}
        /\ rpc = "returned" => returned = ocr_text_list

\* C4 witness: an unconfigured refiner returned two regions with polygons,
\* the environment variable having been set after construction
C4_Witness ==
    /\ rpc = "returned"
    /\ endpoint = PyStr(<<>>)
    /\ env_ocr_url = PyStr(Url)
    /\ Len(returned) = 2
    /\ ~NoVertices(returned[1])
    /\ image = "ok"

\* the last requests.post timed out or failed in transport, answered with a
\* status other than 200, or answered with a body that is not JSON
PostFailed ==
    \/ lastResp.k = "raise"
    \/ lastResp.k = "resp" /\ lastResp.status # 200
    \/ lastResp.k = "resp" /\ lastResp.body.json.t = "invalid"

\* C5: a timeout or transport error, a non-200 status and a malformed body
\* all make the remote call yield no result without raising, and the region
\* being refined keeps its original text.
C5_RemoteFailureYieldsNothing ==
    (rpc \in {"loop", "returned", "raised"} /\ idx > 0 /\ PostFailed) =>
        /\ rpc # "raised"
        /\ lastText = PyNone
        /\ inferred[idx].how = "inferred"
        /\ refined[idx] = ocr_text_list[idx]

\* C5 witness: a 200 answer with a plain-text body left the region as it was
C5_Witness ==
    /\ rpc = "loop"
    /\ idx > 0
    /\ lastResp = Response(200, [raw |-> RawPlain, json |-> JsonInvalid])
    /\ posts # <<>>
    /\ refined[idx].text = <<"a">>

\* the 200 answer's body as C6 reads it
ClaimedText(body) ==
    LET data == body.json
    IN IF data.t = "dict" /\ "text" \in DOMAIN data.m /\ data.m["text"].t = "str"
       THEN data.m["text"].v
       ELSE IF /\ data.t = "dict"
               /\ "outputs" \in DOMAIN data.m
               /\ data.m["outputs"].t = "list"
               /\ data.m["outputs"].items # <<>>
               /\ data.m["outputs"].items[1].t = "dict"
               /\ "text" \in DOMAIN data.m["outputs"].items[1].m
       THEN ToStr(data.m["outputs"].items[1].m["text"])
       ELSE body.raw

\* C6 as stated (surrounding whitespace aside): every 200 answer yields the
\* text field, else the first output's text, else the raw body, a body
\* that is not JSON included.
C6_Original ==
    (idx > 0 /\ lastResp.k = "resp" /\ lastResp.status = 200) =>
        /\ lastText.t = "str"
        /\ lastText.v = RStrip(LStrip(ClaimedText(lastResp.body)))

\* C6 amended: for a 200 answer whose body parses as JSON the extracted text
\* is, stripped of surrounding whitespace, the text field, else str() of the
\* first output's text, else the raw body; a body that is not JSON yields
\* no result.
C6_JsonBodiesOnly ==
    (idx > 0 /\ lastResp.k = "resp" /\ lastResp.status = 200) =>
        IF lastResp.body.json.t = "invalid"
        THEN lastText = PyNone
        ELSE /\ lastText.t = "str"
             /\ lastText.v = RStrip(LStrip(ClaimedText(lastResp.body)))
             /\ lastText.v = <<>> \/ ~IsSpace(lastText.v[1])
             /\ lastText.v = <<>> \/ ~IsSpace(lastText.v[Len(lastText.v)])

\* C6 witness: an answer of another JSON shape gave the raw body, stripped
C6_Witness ==
    /\ idx > 0
    /\ lastResp = Response(200, [raw |-> RawList, json |-> PyList(<<>>)])
    /\ lastText = PyStr(<<"[", "]">>)
    /\ refined[idx].text = <<"[", "]">>

----------------------------------------------------------------------------
(* OpenRouterClient: images and masks *)

\* Images are [mode, w, h, px]: px[(y * w) + x + 1] is the pixel at (x, y);
\* an "L" pixel is 0..255, an "RGB" pixel <<r, g, b>>, "RGBA" <<r, g, b, a>>.
MaskHeights == {1, 2}
GrayLevels == {0, 100, 255}
Colours == {<<255, 255, 255>>, <<255, 0, 0>>}

MasksOfSize(w, h) ==
    {[mode |-> "L", w |-> w, h |-> h, px |-> p] : p \in [1..(w * h) -> GrayLevels]}
    \cup {[mode |-> "RGB", w |-> w, h |-> h, px |-> p] : p \in [1..(w * h) -> Colours]}

Masks == UNION {MasksOfSize(w, h) : w \in 1..MaxMaskWidth, h \in MaskHeights}

\* the base image of an edit: only its size is modelled
SizeOf(img) == [w |-> img.w, h |-> img.h]
ImagesFor(msk) == {SizeOf(msk), [w |-> msk.w + 1, h |-> msk.h]}

\* Mutant of InvertPoint: the mask is copied, not inverted
CopyPoint(p) == p

\* _edit_image_openai, line 237: lambda p: 255 - p
InvertPoint(p) == 255 - p

\* Image.convert("L") of an RGB pixel (ITU-R 601-2 luma, as Pillow rounds it)
Luma(c) == (c[1] * 19595 + c[2] * 38470 + c[3] * 7471 + 32768) \div 65536

\* _edit_image_openai, lines 234-235
ConvertL(img) ==
    IF img.mode = "L" THEN img
    ELSE [mode |-> "L", w |-> img.w, h |-> img.h,
          px |-> [i \in DOMAIN img.px |-> Luma(img.px[i])]]

\* _edit_image_gemini, lines 96-99
ConvertRGB(img) ==
    IF img.mode = "RGB" THEN img
    ELSE [mode |-> "RGB", w |-> img.w, h |-> img.h,
          px |-> [i \in DOMAIN img.px |-> <<img.px[i], img.px[i], img.px[i]>>]]

\* _edit_image_openai, line 237: mask.point(...)
AlphaOf(maskL) ==
    [mode |-> "L", w |-> maskL.w, h |-> maskL.h,
     px |-> [i \in DOMAIN maskL.px |-> InvertPoint(maskL.px[i])]]

\* _edit_image_openai, line 238: PILImage.new("RGBA", mask.size, (0, 0, 0, 0))
NewRGBA(w, h) ==
    [mode |-> "RGBA", w |-> w, h |-> h, px |-> [i \in 1..(w * h) |-> <<0, 0, 0, 0>>]]

\* _edit_image_openai, line 239: rgba_mask.putalpha(alpha)
PutAlpha(img, alpha) ==
    [img EXCEPT !.px = [i \in DOMAIN img.px |->
        <<img.px[i][1], img.px[i][2], img.px[i][3], alpha.px[i]>>]]

\* _edit_image_openai, lines 233-239: the mask that is transmitted
ToEditMask(msk) ==
    LET maskL == ConvertL(msk)
    IN PutAlpha(NewRGBA(maskL.w, maskL.h), AlphaOf(maskL))

----------------------------------------------------------------------------
(* OpenRouterClient: provider answers *)

PyObj(attrs) == [t |-> "obj", m |-> attrs]
HasAttr(x, a) == x.t = "obj" /\ a \in DOMAIN x.m
HasKey(x, k) == x.t = "dict" /\ k \in DOMAIN x.m

\* Image references.  <<"P">> stands for the base64 text of a PNG file; any
\* other payload does not decode to an image.
Png == <<"P">>
HeadDataPng == <<"d", "a", "t", "a", ":", "i", "m", "a", "g", "e", "/", "p", "n", "g", ";", "b", "a", "s", "e", "6", "4", ",">>
HeadDataNoComma == <<"d", "a", "t", "a", ":", "i", "m", "a", "g", "e", "/", "p", "n", "g">>
HttpUrl == <<"h", "t", "t", "p", "s", ":", "/", "/", "h", "/", "i", ".", "p", "n", "g">>
ImageUrls == {HeadDataPng \o Png, HeadDataPng \o <<"?">>, HeadDataNoComma, HttpUrl, Png, <<>>}

Nested(u) == PyDict([image_url |-> PyDict([url |-> PyStr(u)])])
ImageEntries ==
    {Nested(u) : u \in ImageUrls}
    \cup {PyDict([image_url |-> PyStr(HeadDataPng \o Png)]),
          PyDict([url |-> PyStr(HttpUrl)]),
          PyDict([image_url |-> PyDict(<<>>)]),
          PyDict(<<>>),
          PyObj([image_url |-> PyObj([url |-> PyStr(HeadDataPng \o Png)])]),
          PyObj([image_url |-> PyStr(Png)])}

\* the "images" member of a message: absent, null, a list, or a single entry
Absent == [t |-> "absent"]
ImagesMembers ==
    {Absent, PyNone, PyList(<<>>), Nested(HeadDataPng \o Png)}
    \cup {PyList(<<e>>) : e \in ImageEntries}

\* the "content" member of a message
ContentMembers == {Absent, PyNone, PyStr(<<>>), PyStr(<<"n", "o">>)}

Member(k, v) == IF v = Absent THEN <<>> ELSE (k :> v)

\* JSON bodies of a chat/completions answer
ChatBodies ==
    {PyDict(<<>>), PyDict([choices |-> PyList(<<>>)]),
     PyDict([choices |-> PyList(<<PyDict(<<>>)>>)]), PyList(<<>>)}
    \cup {PyDict([choices |-> PyList(<<PyDict([message |->
                PyDict(Member("content", c) @@ Member("images", i))])>>)]) :
            c \in ContentMembers, i \in ImagesMembers}

\* what self.client.chat.completions.create does (lines 127-131)
SdkOutcomes ==
    {[k |-> "raise", exc |-> e] :
        e \in {"TypeError", "AttributeError", "APIStatusError", "APIConnectionError"}}
    \cup {[k |-> "ok", body |-> b] : b \in ChatBodies \ {PyList(<<>>)}}

\* what requests.post does in the fallback (lines 138-151)
HttpChatOutcomes ==
    {[k |-> "raise", exc |-> "ConnectionError"],
     [k |-> "status", status |-> 400],
     [k |-> "notjson"]}
    \cup {[k |-> "ok", body |-> b] : b \in ChatBodies}

\* what requests.get of an image URL does (lines 211-213)
GetOutcomes == {[k |-> "raise", exc |-> "ConnectionError"], [k |-> "status", status |-> 404],
                [k |-> "ok", content |-> Png], [k |-> "ok", content |-> <<"?">>]}

\* what self.client.images.edits.create does (lines 246-253)
EditsOutcomes ==
    {[k |-> "raise", exc |-> "APIStatusError"],
     [k |-> "ok", data |-> PyNone],
     [k |-> "ok", data |-> PyList(<<PyObj([b64_json |-> PyNone])>>)],
     [k |-> "ok", data |-> PyList(<<PyObj([b64_json |-> PyStr(Png)])>>)],
     [k |-> "ok", data |-> PyList(<<PyObj([b64_json |-> PyStr(<<"?">>)])>>)]}

----------------------------------------------------------------------------
(* OpenRouterClient: code *)

Raise(exc, msg) == [k |-> "raise", exc |-> exc, msg |-> msg]
Edited == [k |-> "image", mode |-> "RGB"]

\* the edit instruction (any caller text)
EditPrompt == <<"f", "i", "x">>

\* Mutant of IsGemini: the match is case-sensitive
IsGeminiCaseSensitive(name) == Contains(name, <<"g", "e", "m", "i", "n", "i">>)

\* edit_image_with_mask, line 81
IsGemini(name) == Contains(Lower(name), <<"g", "e", "m", "i", "n", "i">>)

\* base64.b64decode + PILImage.open(...).convert("RGB") (lines 219-220, 256-257)
Decode(data) ==
    IF data = Png THEN Edited ELSE Raise("DecodeError", "cannot identify image")

\* str.split(",", 1)[1] (line 207); <<"IndexError">> when there is no comma
RECURSIVE AfterComma(_)
AfterComma(str) ==
    IF str = <<>> THEN <<"IndexError">>
    ELSE IF Head(str) = "," THEN Tail(str)
    ELSE AfterComma(Tail(str))

HasComma(str) == \E i \in DOMAIN str : str[i] = ","

\* response.choices[0].message of the SDK's answer object (line 170)
SdkMessage(body) ==
    LET choices == DictGet(body.m, "choices", PyNone)
    IN IF ~Truthy(choices) THEN PyNone
       ELSE LET first == choices.items[1]
            IN IF ~("message" \in DOMAIN first.m) THEN PyNone
               ELSE LET msg == first.m["message"].m
                    IN PyObj(("content" :> DictGet(msg, "content", PyNone))
                             @@ (IF "images" \in DOMAIN msg
                                 THEN ("images" :> msg["images"]) ELSE <<>>))

\* MockResponse(response_json).choices[0].message (lines 154-167, 170)
MockMessage(body) ==
    LET choices == DictGet(body.m, "choices", PyNone)
    IN IF ~Truthy(choices) THEN PyNone
       ELSE LET msg == DictGet(choices.items[1].m, "message", PyDict(<<>>)).m
            IN PyObj([content |-> DictGet(msg, "content", PyStr(<<>>)),
                      images |-> DictGet(msg, "images", PyList(<<>>))])

\* lines 186-200: the URL of the first image entry, None when there is none
ExtractUrl(image_data) ==
    IF image_data.t = "dict"
    THEN IF "image_url" \in DOMAIN image_data.m
         THEN LET img_url_obj == image_data.m["image_url"]
              IN IF HasKey(img_url_obj, "url") THEN img_url_obj.m["url"]
                 ELSE IF img_url_obj.t = "str" THEN img_url_obj
                 ELSE PyNone
         ELSE IF "url" \in DOMAIN image_data.m THEN image_data.m["url"]
         ELSE PyNone
    ELSE IF HasAttr(image_data, "image_url")
    THEN IF HasAttr(image_data.m["image_url"], "url")
         THEN image_data.m["image_url"].m["url"]
         ELSE PyStr(ToStr(image_data.m["image_url"]))
    ELSE PyNone

\* Mutant of NoImageError: content or "" is sliced
NoImageErrorTolerant(message) ==
    LET content == IF HasAttr(message, "content") /\ message.m["content"].t = "str"
                   THEN message.m["content"].v ELSE <<>>
    IN [k |-> "raise", exc |-> "RuntimeError", msg |-> "Image edit returned no image data",
        content |-> SubSeq(content, 1, IF Len(content) < 200 THEN Len(content) ELSE 200)]

\* line 223: building the error slices message.content, which fails on None
NoImageError(message) ==
    LET content == IF HasAttr(message, "content") THEN message.m["content"]
                   ELSE PyStr(<<"N", "/", "A">>)
    IN IF content.t = "str"
       THEN [k |-> "raise", exc |-> "RuntimeError",
             msg |-> "Image edit returned no image data",
             content |-> SubSeq(content.v, 1,
                                IF Len(content.v) < 200 THEN Len(content.v) ELSE 200)]
       ELSE Raise("TypeError", "'NoneType' object is not subscriptable")

\* lines 169-223: from the message to the returned image or the error;
\* get is what requests.get does if it is called
ResolveImage(message, get) ==
    IF ~Truthy(message)
    THEN [result |-> Raise("RuntimeError", "Image edit returned no response"), wire |-> <<>>]
    ELSE LET images == IF HasAttr(message, "images") THEN message.m["images"]
                       ELSE IF HasKey(message, "images") THEN message.m["images"]
                       ELSE PyNone
         IN IF ~Truthy(images)
            THEN [result |-> NoImageError(message), wire |-> <<>>]
            ELSE LET image_data == IF images.t = "list" THEN images.items[1] ELSE images
                     image_url == ExtractUrl(image_data)
                 IN IF ~Truthy(image_url)
                    THEN [result |-> Raise("RuntimeError", "Unexpected image format in response"),
                          wire |-> <<>>]
                    ELSE IF StartsWith(image_url.v, <<"d", "a", "t", "a", ":", "i", "m", "a", "g", "e">>)
                    THEN [result |-> IF HasComma(image_url.v)
                                     THEN Decode(AfterComma(image_url.v))
                                     ELSE Raise("IndexError", "list index out of range"),
                          wire |-> <<>>]
                    ELSE IF StartsWith(image_url.v, <<"h", "t", "t", "p">>)
                    THEN [result |-> CASE get.k = "raise" -> Raise(get.exc, "requests.get")
                                       [] get.k = "status" -> Raise("HTTPError", "raise_for_status")
                                       [] get.k = "ok" -> Decode(get.content),
                          wire |-> <<[api |-> "GET", via |-> "requests.get",
                                      url |-> image_url.v, outcome |-> get.k]>>]
                    ELSE [result |-> Decode(image_url.v), wire |-> <<>>]

\* Mutant of FallsBack: `except Exception`
FallsBackOnAnyError(sdk) == sdk.k = "raise"

\* whether the except clause of line 132 catches what the SDK call raised
FallsBack(sdk) == sdk.k = "raise" /\ sdk.exc \in {"TypeError", "AttributeError"}

\* Mutant of FallbackConfig: the fallback uses the client's own configuration
FallbackConfigOfClient(env, key, url) == [key |-> PyStr(key), url |-> url]

\* lines 135-136: the credentials of the fallback are read from the
\* environment when the fallback runs
FallbackConfig(env, key, url) ==
    [key |-> env.key, url |-> GetEnv(env.url, PyStr(DefaultBaseUrl)).v]

\* _edit_image_gemini (lines 90-223).  sdk, http, get: what the SDK call,
\* the fallback requests.post and requests.get do.
EditImageGemini(env, name, key, url, img, msk, sdk, http, get) ==
    LET content == <<[type |-> "text", prompt |-> EditPrompt],
                     [type |-> "image_url", png |-> SizeOf(img)],
                     [type |-> "image_url", png |-> ConvertRGB(msk)]>>
        first == [api |-> "chat.completions.create", via |-> "sdk", key |-> PyStr(key),
                  url |-> url, model |-> name, content |-> content,
                  modalities |-> <<"image", "text">>,
                  outcome |-> IF sdk.k = "raise" THEN sdk.exc ELSE "ok",
                  answer |-> IF sdk.k = "ok" THEN sdk.body ELSE PyNone]
    IN IF sdk.k = "ok"
       THEN LET r == ResolveImage(SdkMessage(sdk.body), get)
            IN [wire |-> <<first>> \o r.wire, result |-> r.result]
       ELSE IF ~FallsBack(sdk)
       THEN [wire |-> <<first>>, result |-> Raise(sdk.exc, "chat.completions.create")]
       ELSE LET cfg == FallbackConfig(env, key, url)
                second == [api |-> "chat/completions", via |-> "requests.post",
                           key |-> cfg.key,
                           url |-> cfg.url \o <<"/", "c", "h", "a", "t", "/", "c", "o", "m", "p", "l", "e", "t", "i", "o", "n", "s">>,
                           model |-> name, content |-> content,
                           modalities |-> <<"image", "text">>,
                           outcome |-> http.k,
                           answer |-> IF http.k = "ok" THEN http.body ELSE PyNone]
            IN CASE http.k = "raise" ->
                      [wire |-> <<first, second>>, result |-> Raise(http.exc, "requests.post")]
                 [] http.k = "status" ->
                      [wire |-> <<first, second>>,
                       result |-> Raise("HTTPError", "raise_for_status")]
                 [] http.k = "notjson" ->
                      [wire |-> <<first, second>>,
                       result |-> Raise("JSONDecodeError", "response_data.json")]
                 [] http.k = "ok" ->
                      IF http.body.t # "dict"
                      THEN [wire |-> <<first, second>>,
                            result |-> Raise("AttributeError", "data.get")]
                      ELSE LET r == ResolveImage(MockMessage(http.body), get)
                           IN [wire |-> <<first, second>> \o r.wire, result |-> r.result]

\* _edit_image_openai (lines 225-257).  edits: what images.edits.create does.
EditImageOpenAI(name, key, url, img, msk, edits) ==
    LET call == [api |-> "images.edits.create", via |-> "sdk", key |-> PyStr(key),
                 url |-> url, model |-> name, image |-> SizeOf(img),
                 mask |-> ToEditMask(msk), prompt |-> EditPrompt,
                 outcome |-> edits.k]
    IN [wire |-> <<call>>,
        result |->
            IF edits.k = "raise" THEN Raise(edits.exc, "images.edits.create")
            ELSE LET b64 == IF Truthy(edits.data)
                            THEN edits.data.items[1].m["b64_json"] ELSE PyNone
                 IN IF ~Truthy(b64)
                    THEN Raise("RuntimeError", "Image edit returned no data")
                    ELSE Decode(b64.v)]

\* what self.client.chat.completions.create answers to a text request:
\* choices is null or a list, the first message's content a string or None
TextContents == {PyNone, PyStr(<<>>), PyStr(<<"h", "i">>)}
TextAnswers ==
    {PyObj([choices |-> PyNone]), PyObj([choices |-> PyList(<<>>)])}
    \cup {PyObj([choices |-> PyList(<<PyObj([message |-> PyObj([content |-> c])])>>)]) :
            c \in TextContents}
TextOutcomes ==
    {[k |-> "raise", exc |-> "APIStatusError"]}
    \cup {[k |-> "ok", body |-> b] : b \in TextAnswers}

\* the arguments of generate_content
UserMessages == <<[role |-> "user", content |-> PyStr(<<"q">>)]>>
Temperatures == {PyNone, PyNum(<<"0">>), PyNum(<<"1">>)}
JsonObject == PyDict([type |-> PyStr(<<"j", "s", "o", "n", "_", "o", "b", "j", "e", "c", "t">>)])
ResponseFormats == {PyNone, JsonObject}

\* the arguments of ModelsWrapper.generate_content: strings and Parts
ImagePart == PyObj([image_data |-> PyStr(Png), mime_type |-> PyStr(<<"i", "m", "a", "g", "e", "/", "p", "n", "g">>)])
ContentsArgs == {<<PyStr(<<"q">>)>>, <<PyStr(<<"q">>), ImagePart>>, <<PyNum(<<"1">>)>>}
ApplicationJson == <<"a", "p", "p", "l", "i", "c", "a", "t", "i", "o", "n", "/", "j", "s", "o", "n">>
Configs ==
    {PyNone}
    \cup {PyObj([temperature |-> t, response_mime_type |-> m]) :
            t \in {PyNone, PyNum(<<"0">>)}, m \in {PyNone, PyStr(ApplicationJson)}}

\* ResponseWrapper.__init__ (ai_client/chat.py line 69, gemini/chat.py line 91)
ResponseText(response) ==
    IF Truthy(response.m["choices"])
    THEN response.m["choices"].items[1].m["message"].m["content"]
    ELSE PyStr(<<>>)

\* generate_content, lines 51-60: the request parameters
ApiParams(name, messages, temperature, response_format) ==
    ("model" :> PyStr(name)) @@ ("messages" :> messages)
    @@ (IF temperature # PyNone THEN ("temperature" :> temperature) ELSE <<>>)
    @@ (IF response_format # PyNone THEN ("response_format" :> response_format) ELSE <<>>)

\* OpenRouterClient.generate_content (lines 39-71); sdk: what the SDK call does
GenerateContentOf(name, key, url, messages, temperature, response_format, sdk) ==
    LET call == [api |-> "chat.completions.create", via |-> "sdk", key |-> PyStr(key),
                 url |-> url,
                 params |-> ApiParams(name, messages, temperature, response_format),
                 outcome |-> IF sdk.k = "raise" THEN sdk.exc ELSE "ok",
                 answer |-> IF sdk.k = "ok" THEN sdk.body ELSE PyNone]
    IN [wire |-> <<call>>,
        result |-> IF sdk.k = "raise" THEN Raise(sdk.exc, "chat.completions.create")
                   ELSE [k |-> "response", text |-> ResponseText(sdk.body)]]

\* ModelsWrapper.generate_content, lines 44-62: one part per string or Part
RECURSIVE MessageContent(_)
MessageContent(contents) ==
    IF contents = <<>> THEN <<>>
    ELSE LET content == Head(contents)
             part == IF content.t = "str"
                     THEN <<[type |-> "text", text |-> content.v]>>
                     ELSE IF content.t = "obj"
                     THEN <<[type |-> "image_url",
                             url |-> <<"d", "a", "t", "a", ":">> \o content.m["mime_type"].v
                                     \o <<";", "b", "a", "s", "e", "6", "4", ",">>
                                     \o content.m["image_data"].v]>>
                     ELSE <<>>
         IN part \o MessageContent(Tail(contents))

\* ModelsWrapper.generate_content, lines 64-69
UserMessage(message_content) ==
    IF Len(message_content) = 1 /\ message_content[1].type = "text"
    THEN <<[role |-> "user", content |-> PyStr(message_content[1].text)]>>
    ELSE <<[role |-> "user", content |-> message_content]>>

\* ModelsWrapper.generate_content, lines 72-82
ModelsApiParams(model, messages, config) ==
    ("model" :> PyStr(model)) @@ ("messages" :> messages)
    @@ (IF Truthy(config) /\ config.m["temperature"] # PyNone
        THEN ("temperature" :> config.m["temperature"]) ELSE <<>>)
    @@ (IF Truthy(config) /\ config.m["response_mime_type"] = PyStr(ApplicationJson)
        THEN ("response_format" :> JsonObject) ELSE <<>>)

\* ModelsWrapper.generate_content (gemini/chat.py lines 40-93)
ModelsGenerateContentOf(model, key, url, contents, config, sdk) ==
    LET call == [api |-> "chat.completions.create", via |-> "sdk", key |-> PyStr(key),
                 url |-> url,
                 params |-> ModelsApiParams(model, UserMessage(MessageContent(contents)), config),
                 outcome |-> IF sdk.k = "raise" THEN sdk.exc ELSE "ok",
                 answer |-> IF sdk.k = "ok" THEN sdk.body ELSE PyNone]
    IN [wire |-> <<call>>,
        result |-> IF sdk.k = "raise" THEN Raise(sdk.exc, "chat.completions.create")
                   ELSE [k |-> "response", text |-> ResponseText(sdk.body)]]

----------------------------------------------------------------------------
(* OpenRouterClient: actions *)

\* the process environment changes
SetEnv ==
    /\ cpc \in {"new", "ready"}
    /\ \E e \in Environments : os_environ' = e
    /\ os_environ' # os_environ
    /\ UNCHANGED <<cpc, model_name, client_key, client_url, wire, result,
                   edit_image, mask_arg, mask>>
    /\ UNCHANGED rvars
    /\ UNCHANGED lvars

\* OpenRouterClient.__init__ without the API key (lines 12-14)
ClientInitFails ==
    /\ cpc = "new"
    /\ ~Truthy(os_environ.key)
    /\ cpc' = "failed"
    /\ UNCHANGED <<os_environ, model_name, client_key, client_url, wire, result,
                   edit_image, mask_arg, mask>>
    /\ UNCHANGED rvars
    /\ UNCHANGED lvars

\* OpenRouterClient.__init__ (lines 10-25)
ClientInit ==
    /\ cpc = "new"
    /\ Truthy(os_environ.key)
    /\ \E arg \in ModelArgs :
        model_name' = IF arg # PyNone THEN arg.v
                      ELSE GetEnv(os_environ.model, PyStr(DefaultModel)).v
    /\ client_key' = os_environ.key.v
    /\ client_url' = GetEnv(os_environ.url, PyStr(DefaultBaseUrl)).v
    /\ cpc' = "ready"
    /\ UNCHANGED <<os_environ, wire, result, edit_image, mask_arg, mask>>
    /\ UNCHANGED rvars
    /\ UNCHANGED lvars

\* the caller tries the constructor again
ClientRetry ==
    /\ cpc = "failed"
    /\ cpc' = "new"
    /\ UNCHANGED <<os_environ, model_name, client_key, client_url, wire, result,
                   edit_image, mask_arg, mask>>
    /\ UNCHANGED rvars
    /\ UNCHANGED lvars

\* edit_image_with_mask (lines 73-88) with the protocol it selects
EditImageWithMask ==
    /\ cpc = "ready"
    /\ \E msk \in Masks :
        \E img \in ImagesFor(msk) :
            /\ edit_image' = img
            /\ mask_arg' = msk
            /\ mask' = msk
            /\ IF IsGemini(model_name)
               THEN /\ msk.w * msk.h = 1
                    /\ \E sdk \in SdkOutcomes, get \in GetOutcomes :
                        \E http \in IF FallsBack(sdk) THEN HttpChatOutcomes ELSE {sdk} :
                            LET r == EditImageGemini(os_environ, model_name, client_key,
                                                     client_url, img, msk, sdk, http, get)
                            IN wire' = r.wire /\ result' = r.result
               ELSE \E edits \in EditsOutcomes :
                        LET r == EditImageOpenAI(model_name, client_key, client_url,
                                                 img, msk, edits)
                        IN wire' = r.wire /\ result' = r.result
    /\ cpc' = "done"
    /\ UNCHANGED <<os_environ, model_name, client_key, client_url>>
    /\ UNCHANGED rvars
    /\ UNCHANGED lvars

\* the caller takes the result and is ready for another edit
EditAgain ==
    /\ cpc = "done"
    /\ cpc' = "ready"
    /\ wire' = <<>>
    /\ result' = NoResult
    /\ edit_image' = NoImage
    /\ mask_arg' = NoMask
    /\ mask' = NoMask
    /\ UNCHANGED <<os_environ, model_name, client_key, client_url>>
    /\ UNCHANGED rvars
    /\ UNCHANGED lvars

\* OpenRouterClient.generate_content (ai_client/chat.py lines 39-71)
GenerateContent ==
    /\ cpc = "ready"
    /\ \E temperature \in Temperatures, response_format \in ResponseFormats,
          sdk \in TextOutcomes :
        LET r == GenerateContentOf(model_name, client_key, client_url, UserMessages,
                                   temperature, response_format, sdk)
        IN wire' = r.wire /\ result' = r.result
    /\ cpc' = "generated"
    /\ UNCHANGED <<os_environ, model_name, client_key, client_url,
                   edit_image, mask_arg, mask>>
    /\ UNCHANGED rvars
    /\ UNCHANGED lvars

\* Gemini(...).client.models.generate_content (gemini/chat.py lines 40-93);
\* Gemini.__init__ (lines 97-115) builds its SDK client from the environment
\* as OpenRouterClient.__init__ does
ModelsGenerateContent ==
    /\ cpc = "ready"
    /\ \E contents \in ContentsArgs, config \in Configs, sdk \in TextOutcomes :
        LET r == ModelsGenerateContentOf(model_name, client_key, client_url,
                                         contents, config, sdk)
        IN wire' = r.wire /\ result' = r.result
    /\ cpc' = "generated_models"
    /\ UNCHANGED <<os_environ, model_name, client_key, client_url,
                   edit_image, mask_arg, mask>>
    /\ UNCHANGED rvars
    /\ UNCHANGED lvars

\* the caller takes the response and is ready for another call
GenerateAgain ==
    /\ cpc \in {"generated", "generated_models"}
    /\ cpc' = "ready"
    /\ wire' = <<>>
    /\ result' = NoResult
    /\ UNCHANGED <<os_environ, model_name, client_key, client_url,
                   edit_image, mask_arg, mask>>
    /\ UNCHANGED rvars
    /\ UNCHANGED lvars

ClientInitState ==
    /\ os_environ \in Environments
    /\ cpc = "new"
    /\ model_name = <<>>
    /\ client_key = <<>>
    /\ client_url = <<>>
    /\ wire = <<>>
    /\ result = NoResult
    /\ edit_image = NoImage
    /\ mask_arg = NoMask
    /\ mask = NoMask
    \* no DeepSeekOCRRefiner is constructed
    /\ env_ocr_url = PyNone
    /\ endpoint = PyNone
    /\ enabled = FALSE
    /\ rpc = "new"
    /\ ocr_text_list = <<>>
    /\ image = "ok"
    /\ refined = <<>>
    /\ idx = 0
    /\ returned = <<>>
    /\ posts = <<>>
    /\ inferred = <<>>
    /\ lastResp = NoResp
    /\ lastText = PyNone
    \* infer_text is not called
    /\ machine = [device |-> "cpu", bf16 |-> FALSE]
    /\ _MODEL = 0
    /\ _TOKENIZER = 0
    /\ _DEVICE = "none"
    /\ _DTYPE = "none"
    /\ torch = OriginalHooks
    /\ frames = [t \in Callers |-> IdleFrame]
    /\ calls = [t \in Callers |-> 0]
    /\ loads = [tokenizer |-> 0, model |-> 0]
    /\ used = {}
    /\ finished = {}

ClientNext ==
    \/ SetEnv
    \/ ClientInitFails
    \/ ClientInit
    \/ ClientRetry
    \/ EditImageWithMask
    \/ EditAgain
    \/ GenerateContent
    \/ ModelsGenerateContent
    \/ GenerateAgain

SpecEdit == ClientInitState /\ [][ClientNext]_vars

----------------------------------------------------------------------------
(* Properties of OpenRouterClient, checked under SpecEdit *)

\* "gemini" occurs in name, letter case aside
MatchesGemini(name) ==
    LET lo == <<"g", "e", "m", "i", "n", "i">>
        up == <<"G", "E", "M", "I", "N", "I">>
    IN \E i \in 0..(Len(name) - 6) :
        \A k \in 1..6 : name[i + k] \in {lo[k], up[k]}

ChatApis == {"chat.completions.create", "chat/completions"}

\* the positions of the raw HTTP fallback in the calls of the current edit
Fallbacks == {i \in DOMAIN wire : wire[i].api = "chat/completions"}

\* the current edit took the chat protocol
ChatEdit ==
    cpc = "done" /\ Len(wire) >= 1 /\ wire[1].api = "chat.completions.create"

\* C7: an edit with a model id containing "gemini" in any letter case makes
\* chat/completions requests (and possibly a download of the image) and never
\* calls the image-edit operation; an edit with any other model id makes
\* exactly the image-edit call and no chat/completions request.
C7_OneProtocol ==
    cpc = "done" =>
        IF MatchesGemini(model_name)
        THEN /\ Len(wire) >= 1
             /\ wire[1].api = "chat.completions.create"
             /\ \A i \in DOMAIN wire : wire[i].api \in ChatApis \cup {"GET"}
        ELSE /\ Len(wire) = 1
             /\ wire[1].api = "images.edits.create"

\* C7 witness: a mixed-case gemini id went through the SDK call and the
\* HTTP fallback and returned an image
C7_Witness ==
    /\ cpc = "done"
    /\ model_name = GeminiMixed
    /\ Len(wire) = 2
    /\ wire[2].api = "chat/completions"
    /\ result = Edited

\* C8 as stated: the fallback is issued at most once and only after the SDK
\* call was rejected with a TypeError; none after a success; none after a
\* provider or network error, which propagates.
C8_Original ==
    ChatEdit =>
        /\ Cardinality(Fallbacks) <= 1
        /\ \A i \in Fallbacks : i = 2 /\ wire[1].outcome = "TypeError"
        /\ wire[1].outcome = "ok" => Fallbacks = {}
        /\ wire[1].outcome \in {"APIStatusError", "APIConnectionError"} =>
            /\ Fallbacks = {}
            /\ result = Raise(wire[1].outcome, "chat.completions.create")

\* C8 amended: the fallback is issued at most once and only after the SDK
\* call was rejected with a TypeError or an AttributeError; none after a
\* success; none after a provider or network error, which propagates.
C8_FallbackOnlyOnRejection ==
    ChatEdit =>
        /\ Cardinality(Fallbacks) <= 1
        /\ \A i \in Fallbacks :
            i = 2 /\ wire[1].outcome \in {"TypeError", "AttributeError"}
        /\ wire[1].outcome = "ok" => Fallbacks = {}
        /\ wire[1].outcome \in {"APIStatusError", "APIConnectionError"} =>
            /\ Fallbacks = {}
            /\ result = Raise(wire[1].outcome, "chat.completions.create")

\* C8 witness: the SDK call raised AttributeError, the fallback answered
\* with an image
C8_Witness ==
    /\ ChatEdit
    /\ wire[1].outcome = "AttributeError"
    /\ Fallbacks = {2}
    /\ wire[2].outcome = "ok"
    /\ result = Edited

\* C9: the fallback request carries the API key and the base URL the client
\* was constructed with.
C9_FallbackUsesClientConfig ==
    ChatEdit =>
        \A i \in Fallbacks :
            /\ wire[i].key = PyStr(client_key)
            /\ wire[i].url = client_url \o <<"/", "c", "h", "a", "t", "/", "c", "o", "m", "p", "l", "e", "t", "i", "o", "n", "s">>

\* the grayscale value of pixel i of a mask
GrayValue(msk, i) == IF msk.mode = "L" THEN msk.px[i] ELSE Luma(msk.px[i])

\* C10: the mask transmitted by the image-edit protocol is an RGBA image of
\* the mask's dimensions whose pixel at each coordinate has RGB 0 and alpha
\* 255 - v, v the grayscale value of the mask there (so all-0 gives alpha
\* 255 everywhere and all-255 gives alpha 0 everywhere); the caller's mask
\* is as it was passed.
C10_MaskTransform ==
    (cpc = "done" /\ Len(wire) = 1 /\ wire[1].api = "images.edits.create") =>
        LET sent == wire[1].mask
        IN /\ sent.mode = "RGBA"
           /\ sent.w = mask_arg.w
           /\ sent.h = mask_arg.h
           /\ DOMAIN sent.px = 1..(mask_arg.w * mask_arg.h)
           /\ \A i \in DOMAIN sent.px :
                sent.px[i] = <<0, 0, 0, 255 - GrayValue(mask_arg, i)>>
           /\ (\A i \in DOMAIN sent.px : GrayValue(mask_arg, i) = 0) =>
                \A i \in DOMAIN sent.px : sent.px[i][4] = 255
           /\ (\A i \in DOMAIN sent.px : GrayValue(mask_arg, i) = 255) =>
                \A i \in DOMAIN sent.px : sent.px[i][4] = 0
           /\ mask = mask_arg

\* C10 witness: a 2x2 grayscale mask with 0, 100 and 255 was transmitted
C10_Witness ==
    /\ cpc = "done"
    /\ Len(wire) = 1
    /\ wire[1].api = "images.edits.create"
    /\ mask_arg.mode = "L"
    /\ mask_arg.w = 2
    /\ mask_arg.h = 2
    /\ mask_arg.px = <<0, 100, 255, 0>>
    /\ wire[1].mask.px = <<<<0, 0, 0, 255>>, <<0, 0, 0, 155>>, <<0, 0, 0, 0>>, <<0, 0, 0, 255>>>>
    /\ edit_image = [w |-> 2, h |-> 2]

\* the current edit took the image-edit protocol
MaskEdit == cpc = "done" /\ ~MatchesGemini(model_name)

\* C11: when the mask's dimensions differ from the base image's, the edit
\* fails with a dimension-mismatch error and no request is transmitted.
C11_MismatchRejected ==
    (MaskEdit /\ SizeOf(mask_arg) # edit_image) =>
        /\ result.k = "raise"
        /\ result.exc = "DimensionMismatchError"
        /\ wire = <<>>

\* the last chat/completions answer of the current edit
LastChat == wire[IF Fallbacks = {} THEN 1 ELSE 2]

\* the first message of a chat/completions answer (absent: Absent)
FirstMessage(body) ==
    IF HasKey(body, "choices") /\ Truthy(body.m["choices"])
       /\ HasKey(body.m["choices"].items[1], "message")
    THEN body.m["choices"].items[1].m["message"]
    ELSE Absent

\* a message that carries no image: images absent, null or empty
CarriesNoImage(message) ==
    \/ ~HasKey(message, "images")
    \/ message.m["images"] \in {PyNone, PyList(<<>>)}

\* the message content as text: "" when absent or null
ContentText(message) ==
    IF HasKey(message, "content") /\ message.m["content"].t = "str"
    THEN message.m["content"].v ELSE <<>>

\* the chat protocol got an answer whose first message carries no image
NoImageAnswered ==
    /\ ChatEdit
    /\ LastChat.outcome = "ok"
    /\ FirstMessage(LastChat.answer) # Absent
    /\ CarriesNoImage(FirstMessage(LastChat.answer))

\* C12: in the chat protocol, an answer whose first message carries no image
\* makes the edit fail with the no-image error carrying the (truncated)
\* message content, whatever the content is: a string, "", absent or null.
C12_NoImageError ==
    NoImageAnswered =>
        /\ result.k = "raise"
        /\ result.exc = "RuntimeError"
        /\ result.msg = "Image edit returned no image data"
        /\ result.content = ContentText(FirstMessage(LastChat.answer))

\* a text request was answered
TextAnswered ==
    /\ cpc \in {"generated", "generated_models"}
    /\ result.k = "response"

\* the content of the first message of the answer (Absent when there is none)
AnsweredContent ==
    LET choices == wire[1].answer.m["choices"]
    IN IF Truthy(choices) THEN choices.items[1].m["message"].m["content"] ELSE Absent

\* C13: the text of an answered text request is the content string of the
\* first message, and is the empty string, never null, when that content is
\* absent; for both generate_content operations.
C13_TextNeverNull ==
    TextAnswered =>
        /\ result.text.t = "str"
        /\ AnsweredContent.t = "str" => result.text = AnsweredContent
        /\ AnsweredContent \in {Absent, PyNone} => result.text = PyStr(<<>>)

----------------------------------------------------------------------------
(* deepseek_local: _load_model_and_tokenizer and infer_text, one step per  *)
(* statement that reads or writes process-wide state                       *)

\* line 43-49
DTypeOf(m) ==
    IF m.device = "cuda" THEN (IF m.bf16 THEN "bfloat16" ELSE "float16") ELSE "float32"

\* the call of thread t ends: its locals are gone
EndCall(t, how) ==
    /\ frames' = [frames EXCEPT ![t] = IdleFrame]
    /\ finished' = finished \cup {[caller |-> t, how |-> how]}

\* the next statement of a group of three (one per hook), or the statement
\* after the group
NextHook(t, after) ==
    IF frames[t].i < Len(Hooks)
    THEN [frames[t] EXCEPT !.i = @ + 1]
    ELSE [frames[t] EXCEPT !.pc = after, !.i = 1]

\* thread t calls infer_text (line 99)
InferTextCall(t) ==
    /\ frames[t].pc = "idle"
    /\ calls[t] < MaxCalls
    /\ frames' = [frames EXCEPT ![t].pc = "L25"]
    /\ calls' = [calls EXCEPT ![t] = @ + 1]
    /\ UNCHANGED <<machine, _MODEL, _TOKENIZER, _DEVICE, _DTYPE, torch, loads, used,
                   finished>>
    /\ UNCHANGED <<rvars, evars>>

\* lines 25-26: the cached model and tokenizer are returned if both are set
LoadCheck(t) ==
    /\ frames[t].pc = "L25"
    /\ frames' = [frames EXCEPT ![t] =
            IF _MODEL # 0 /\ _TOKENIZER # 0
            THEN [@ EXCEPT !.pc = "L115", !.model = _MODEL, !.tokenizer = _TOKENIZER,
                           !.device = _DEVICE, !.dtype = _DTYPE]
            ELSE [@ EXCEPT !.pc = "L34"]]
    /\ UNCHANGED <<machine, _MODEL, _TOKENIZER, _DEVICE, _DTYPE, torch, calls, loads,
                   used, finished>>
    /\ UNCHANGED <<rvars, evars>>

\* lines 34-37: the tokenizer is loaded, or from_pretrained raises
LoadTokenizer(t) ==
    /\ frames[t].pc = "L34"
    /\ \/ /\ loads' = [loads EXCEPT !.tokenizer = @ + 1]
          /\ _TOKENIZER' = loads.tokenizer + 1
          /\ frames' = [frames EXCEPT ![t].pc = "L40"]
          /\ UNCHANGED finished
       \/ /\ EndCall(t, "load_raised")
          /\ UNCHANGED <<loads, _TOKENIZER>>
    /\ UNCHANGED <<machine, _MODEL, _DEVICE, _DTYPE, torch, calls, used>>
    /\ UNCHANGED <<rvars, evars>>

\* lines 40-49: device and dtype (every loader assigns the same values)
SelectDevice(t) ==
    /\ frames[t].pc = "L40"
    /\ _DEVICE' = machine.device
    /\ _DTYPE' = DTypeOf(machine)
    /\ frames' = [frames EXCEPT ![t].pc = "L52"]
    /\ UNCHANGED <<machine, _MODEL, _TOKENIZER, torch, calls, loads, used, finished>>
    /\ UNCHANGED <<rvars, evars>>

\* lines 52-82: the model is loaded, or from_pretrained raises
LoadModel(t) ==
    /\ frames[t].pc = "L52"
    /\ \/ /\ loads' = [loads EXCEPT !.model = @ + 1]
          /\ _MODEL' = loads.model + 1
          /\ frames' = [frames EXCEPT ![t].pc = "L84"]
          /\ UNCHANGED finished
       \/ /\ EndCall(t, "load_raised")
          /\ UNCHANGED <<loads, _MODEL>>
    /\ UNCHANGED <<machine, _TOKENIZER, _DEVICE, _DTYPE, torch, calls, used>>
    /\ UNCHANGED <<rvars, evars>>

\* line 84 and line 99: the globals as they are now become the call's locals
LoadReturn(t) ==
    /\ frames[t].pc = "L84"
    /\ frames' = [frames EXCEPT ![t] =
            [@ EXCEPT !.pc = "L115", !.model = _MODEL, !.tokenizer = _TOKENIZER,
                      !.device = _DEVICE, !.dtype = _DTYPE]]
    /\ UNCHANGED <<machine, _MODEL, _TOKENIZER, _DEVICE, _DTYPE, torch, calls, loads,
                   used, finished>>
    /\ UNCHANGED <<rvars, evars>>

\* line 115: only a CPU call patches
PatchCheck(t) ==
    /\ frames[t].pc = "L115"
    /\ frames' = [frames EXCEPT ![t] =
            IF @.device = "cpu" THEN [@ EXCEPT !.pc = "L117", !.i = 1]
            ELSE [@ EXCEPT !.pc = "L148"]]
    /\ UNCHANGED <<machine, _MODEL, _TOKENIZER, _DEVICE, _DTYPE, torch, calls, loads,
                   used, finished>>
    /\ UNCHANGED <<rvars, evars>>

\* lines 117-119: one of the current hooks is saved
SaveOriginal(t) ==
    /\ frames[t].pc = "L117"
    /\ LET h == Hooks[frames[t].i]
       IN frames' = [frames EXCEPT ![t] =
            [NextHook(t, "L142") EXCEPT !.originals[h] = torch[h]]]
    /\ UNCHANGED <<machine, _MODEL, _TOKENIZER, _DEVICE, _DTYPE, torch, calls, loads,
                   used, finished>>
    /\ UNCHANGED <<rvars, evars>>

\* lines 142-144: one of the hooks is replaced by this call's closure
ApplyPatch(t) ==
    /\ frames[t].pc = "L142"
    /\ torch' = [torch EXCEPT ![Hooks[frames[t].i]] = Patched(t)]
    /\ frames' = [frames EXCEPT ![t] = NextHook(t, "L148")]
    /\ UNCHANGED <<machine, _MODEL, _TOKENIZER, _DEVICE, _DTYPE, calls, loads, used,
                   finished>>
    /\ UNCHANGED <<rvars, evars>>

\* lines 148-150: the image is saved to a temporary file, or saving raises
\* (the finally clause, lines 180-185, only removes the file)
SaveTemp(t) ==
    /\ frames[t].pc = "L148"
    /\ \/ /\ frames' = [frames EXCEPT ![t].pc = "L152"]
          /\ UNCHANGED finished
       \/ EndCall(t, "save_raised")
    /\ UNCHANGED <<machine, _MODEL, _TOKENIZER, _DEVICE, _DTYPE, torch, calls, loads,
                   used>>
    /\ UNCHANGED <<rvars, evars>>

\* lines 152-165: model.infer returns or raises (the finally clause, lines
\* 180-185, only removes the file); after a return a CPU call restores
Infer(t) ==
    /\ frames[t].pc = "L152"
    /\ used' = used \cup {frames[t].model}
    /\ \/ /\ frames' = [frames EXCEPT ![t] =
                IF @.device = "cpu" THEN [@ EXCEPT !.pc = "L167", !.i = 1]
                ELSE [@ EXCEPT !.pc = "L173"]]
          /\ UNCHANGED finished
       \/ EndCall(t, "infer_raised")
    /\ UNCHANGED <<machine, _MODEL, _TOKENIZER, _DEVICE, _DTYPE, torch, calls, loads>>
    /\ UNCHANGED <<rvars, evars>>

\* lines 167-169: one of the hooks is set to what this call saved
Restore(t) ==
    /\ frames[t].pc = "L167"
    /\ LET h == Hooks[frames[t].i]
       IN torch' = [torch EXCEPT ![h] = frames[t].originals[h]]
    /\ frames' = [frames EXCEPT ![t] = NextHook(t, "L173")]
    /\ UNCHANGED <<machine, _MODEL, _TOKENIZER, _DEVICE, _DTYPE, calls, loads, used,
                   finished>>
    /\ UNCHANGED <<rvars, evars>>

\* lines 173-179: the text is returned
InferTextReturn(t) ==
    /\ frames[t].pc = "L173"
    /\ EndCall(t, "returned")
    /\ UNCHANGED <<machine, _MODEL, _TOKENIZER, _DEVICE, _DTYPE, torch, calls, loads,
                   used>>
    /\ UNCHANGED <<rvars, evars>>

LocalInitState ==
    /\ machine \in Machines
    /\ _MODEL = 0
    /\ _TOKENIZER = 0
    /\ _DEVICE = "none"
    /\ _DTYPE = "none"
    /\ torch = OriginalHooks
    /\ frames = [t \in Callers |-> IdleFrame]
    /\ calls = [t \in Callers |-> 0]
    /\ loads = [tokenizer |-> 0, model |-> 0]
    /\ used = {}
    /\ finished = {}
    \* no DeepSeekOCRRefiner is constructed
    /\ env_ocr_url = PyNone
    /\ endpoint = PyNone
    /\ enabled = FALSE
    /\ rpc = "new"
    /\ ocr_text_list = <<>>
    /\ image = "ok"
    /\ refined = <<>>
    /\ idx = 0
    /\ returned = <<>>
    /\ posts = <<>>
    /\ inferred = <<>>
    /\ lastResp = NoResp
    /\ lastText = PyNone
    \* no OpenRouterClient is constructed
    /\ os_environ = EnvUnset
    /\ cpc = "new"
    /\ model_name = <<>>
    /\ client_key = <<>>
    /\ client_url = <<>>
    /\ wire = <<>>
    /\ result = NoResult
    /\ edit_image = NoImage
    /\ mask_arg = NoMask
    /\ mask = NoMask

LocalNext ==
    \E t \in Callers :
        \/ InferTextCall(t)
        \/ LoadCheck(t)
        \/ LoadTokenizer(t)
        \/ SelectDevice(t)
        \/ LoadModel(t)
        \/ LoadReturn(t)
        \/ PatchCheck(t)
        \/ SaveOriginal(t)
        \/ ApplyPatch(t)
        \/ SaveTemp(t)
        \/ Infer(t)
        \/ Restore(t)
        \/ InferTextReturn(t)

SpecLocal == LocalInitState /\ [][LocalNext]_vars

----------------------------------------------------------------------------
(* Properties of deepseek_local, checked under SpecLocal *)

\* C14: the model and the tokenizer are loaded at most once, whatever the
\* interleaving of the callers, and every call of model.infer is made on
\* that one instance.
C14_LoadedOnce ==
    /\ loads.model <= 1
    /\ (\A f \in finished : f.how # "load_raised") => loads.tokenizer <= 1
    /\ Cardinality(used) <= 1

\* C15: on a CPU device, once every call of infer_text has finished,
\* returned or raised, the three hooks are torch's own functions again.
C15_HooksRestored ==
    (/\ machine.device = "cpu"
     /\ finished # {}
     /\ \A f \in finished : f.how \in {"returned", "infer_raised"}
     /\ \A t \in Callers : frames[t].pc = "idle") =>
        torch = OriginalHooks

====
